---- MODULE Spec2Model ----
(***************************************************************************)
(* Model of the user service of main.go: the two HTTP handlers getUsers    *)
(* and createUser running as concurrent goroutines over one users table,   *)
(* and main's signal-driven shutdown (srv.Shutdown with a 5 second         *)
(* context, log.Fatalf on its error, the deferred db.Close).               *)
(*                                                                         *)
(* A Go string is modelled as the sequence of its code points; len(s) is   *)
(* the number of bytes of its UTF-8 encoding, as in Go.                    *)
(***************************************************************************)
EXTENDS Integers, Sequences, FiniteSets, TLC

\* Number of requests that arrive in one behaviour.
NumReq == 2

\* net/http status codes used by the handlers.
StatusOK == 200
StatusCreated == 201
StatusBadRequest == 400
StatusMethodNotAllowed == 405
StatusConflict == 409
StatusInternalServerError == 500

\* Bounds of the username length check, and the shutdown timeout (seconds).
MinNameLen == 3
MaxNameLen == 20
GracePeriod == 5

Req == 1..NumReq

----------------------------------------------------------------------------
\* Go strings

\* Bytes of the UTF-8 encoding of one code point.
Utf8Len(cp) ==
    IF cp < 128 THEN 1 ELSE IF cp < 2048 THEN 2 ELSE IF cp < 65536 THEN 3 ELSE 4

RECURSIVE GoLen(_)
\* len(s) of a Go string: its length in bytes.
GoLen(s) == IF s = <<>> THEN 0 ELSE Utf8Len(Head(s)) + GoLen(Tail(s))

\* Number of characters (code points) of a string.
RuneCount(s) == Len(s)

Rep(cp, n) == [i \in 1..n |-> cp]

\* The names requests carry: "", "aa", "aaa", "bbb", 20 and 21 times "a",
\* and two names of U+00E9 (2 bytes each): 2 characters and 20 characters.
Names ==
    { <<>>, Rep(97, 2), Rep(97, 3), Rep(98, 3), Rep(97, 20), Rep(97, 21),
      Rep(233, 2), Rep(233, 20) }

Methods == {"GET", "POST"}

\* A request to /users, or to /create with its method, whether ParseForm
\* succeeds, and the value of the form field "name" ("" when it is missing).
ListRequest == [endpoint |-> "users", method |-> "GET", parseOk |-> TRUE, name |-> <<>>]

CreateRequest(m, ok, n) == [endpoint |-> "create", method |-> m, parseOk |-> ok, name |-> n]

\* POST requests that parse carry every name; requests with another method or
\* a body that does not parse carry a missing, a short, a valid absent and a
\* valid present name.
CreateRequests ==
    { CreateRequest("POST", TRUE, n) : n \in Names }
    \cup { CreateRequest("POST", FALSE, n) : n \in {<<>>, Rep(97, 2), Rep(97, 3)} }
    \cup { CreateRequest("GET", TRUE, n) : n \in {<<>>, Rep(97, 2), Rep(97, 3), Rep(98, 3)} }

Requests == {ListRequest} \cup CreateRequests

----------------------------------------------------------------------------
VARIABLES
    table,      \* the rows of the users table, in storage order
    nextId,     \* the next value of the id sequence
    req,        \* req[r]: the request handled by invocation r
    pc,         \* pc[r]: where invocation r is
    resp,       \* resp[r]: the responses invocation r has written
    dbLog,      \* dbLog[r]: the statements invocation r has issued, with results
    before,     \* before[r]: the table when r arrived
    rowsRead,   \* rowsRead[r]: the rows the SELECT of a list invocation returned
    phase,      \* main: "serving", "shutdown" (inside srv.Shutdown), "exited"
    listening,  \* whether the listener accepts connections
    clock,      \* seconds since srv.Shutdown was called
    dbOpen,     \* whether the connection pool is open (db.Close not yet run)
    exitKind,   \* "none", "graceful" (main returned), "fatal" (log.Fatalf)
    atSignal    \* the invocations in progress when the signal arrived

vars == <<table, nextId, req, pc, resp, dbLog, before, rowsRead,
          phase, listening, clock, dbOpen, exitKind, atSignal>>

srvVars == <<phase, listening, clock, dbOpen, exitKind, atSignal>>

Row(id, name) == [id |-> id, name |-> name]

InitialTables == { <<>>, <<Row(1, Rep(98, 3))>> }

InFlight == {r \in Req : pc[r] \notin {"idle", "done"}}

Init ==
    /\ table \in InitialTables
    /\ nextId = Len(table) + 1
    /\ req = [r \in Req |-> ListRequest]
    /\ pc = [r \in Req |-> "idle"]
    /\ resp = [r \in Req |-> <<>>]
    /\ dbLog = [r \in Req |-> <<>>]
    /\ before = [r \in Req |-> <<>>]
    /\ rowsRead = [r \in Req |-> <<>>]
    /\ phase = "serving"
    /\ listening = TRUE
    /\ clock = 0
    /\ dbOpen = TRUE
    /\ exitKind = "none"
    /\ atSignal = {}

----------------------------------------------------------------------------
\* Response helpers

\* Mutant: the envelope's status field is fixed instead of the code written.
sendErrorResponseFixedStatus(message, statusCode) ==
    [code |-> statusCode, body |-> [error |-> message, status |-> 400]]

sendErrorResponse(message, statusCode) ==
    [code |-> statusCode, body |-> [error |-> message, status |-> statusCode]]

sendSuccessResponse(data, statusCode) ==
    [code |-> statusCode, body |-> data]

\* encoding/json of a slice: a nil slice is null, any other an array.
JsonSlice(s) ==
    IF s.isNil THEN [kind |-> "null", elems |-> <<>>]
    ELSE [kind |-> "array", elems |-> s.elems]

NilSlice == [isNil |-> TRUE, elems |-> <<>>]

GoAppend(s, x) == [isNil |-> FALSE, elems |-> Append(s.elems, x)]

RECURSIVE ScanRows(_, _)
\* The loop of getUsers over the rows: users = append(users, {id, name}).
ScanRows(rows, users) ==
    IF rows = <<>> THEN users
    ELSE ScanRows(Tail(rows), GoAppend(users, Row(Head(rows).id, Head(rows).name)))

Write(r, w) == resp' = [resp EXCEPT ![r] = Append(@, w)]

Issue(r, op, res) == dbLog' = [dbLog EXCEPT ![r] = Append(@, [op |-> op, res |-> res])]

Running == phase # "exited"

----------------------------------------------------------------------------
\* getUsers

GetUsers(r) ==
    /\ Running
    /\ pc[r] = "query"
    /\ \E outcome \in {"ok", "queryErr", "scanErr", "iterErr"} :
        /\ outcome = "scanErr" => table # <<>>
        /\ Issue(r, "select", IF outcome = "ok" THEN "ok" ELSE "err")
        /\ rowsRead' = [rowsRead EXCEPT ![r] = IF outcome = "queryErr" THEN <<>> ELSE table]
        /\ Write(r,
             CASE outcome = "queryErr" ->
                    sendErrorResponse("Failed to query users", StatusInternalServerError)
               [] outcome = "scanErr" ->
                    sendErrorResponse("Failed to scan user", StatusInternalServerError)
               [] outcome = "iterErr" ->
                    sendErrorResponse("Error iterating users", StatusInternalServerError)
               [] outcome = "ok" ->
                    sendSuccessResponse(
                        [users |-> JsonSlice(ScanRows(table, NilSlice)),
                         status |-> StatusOK], StatusOK))
    /\ pc' = [pc EXCEPT ![r] = "done"]
    /\ UNCHANGED <<table, nextId, req, before, srvVars>>

----------------------------------------------------------------------------
\* createUser

\* Mutant: the method check is missing.
MethodAllowedAny(m) == TRUE

MethodAllowed(m) == m = "POST"

LengthOk(username) ==
    ~(GoLen(username) < MinNameLen \/ GoLen(username) > MaxNameLen)

\* Mutant: the length check comes before the check for an empty name.
ValidateLengthFirst(q) ==
    IF ~MethodAllowed(q.method)
    THEN <<sendErrorResponse("Invalid request method. Only POST is allowed",
                             StatusMethodNotAllowed)>>
    ELSE IF ~q.parseOk
    THEN <<sendErrorResponse("Failed to parse form data", StatusBadRequest)>>
    ELSE IF ~LengthOk(q.name)
    THEN <<sendErrorResponse("Username must be between 3 and 20 characters",
                             StatusBadRequest)>>
    ELSE IF q.name = <<>>
    THEN <<sendErrorResponse("Username is required", StatusBadRequest)>>
    ELSE <<>>

\* The checks of createUser before it touches the database: the response of
\* the first failing check, or <<>> when all pass.
Validate(q) ==
    IF ~MethodAllowed(q.method)
    THEN <<sendErrorResponse("Invalid request method. Only POST is allowed",
                             StatusMethodNotAllowed)>>
    ELSE IF ~q.parseOk
    THEN <<sendErrorResponse("Failed to parse form data", StatusBadRequest)>>
    ELSE IF q.name = <<>>
    THEN <<sendErrorResponse("Username is required", StatusBadRequest)>>
    ELSE IF ~LengthOk(q.name)
    THEN <<sendErrorResponse("Username must be between 3 and 20 characters",
                             StatusBadRequest)>>
    ELSE <<>>

\* The server accepts a connection and runs the handler of the request's path
\* up to its first database call: getUsers to its query, createUser through
\* its checks of the request (lines 108-129).
Arrive(r, q) ==
    /\ listening
    /\ Running
    /\ pc[r] = "idle"
    /\ \A s \in Req : s < r => pc[s] # "idle"
    /\ req' = [req EXCEPT ![r] = q]
    /\ before' = [before EXCEPT ![r] = table]
    /\ IF q.endpoint = "users"
       THEN /\ pc' = [pc EXCEPT ![r] = "query"]
            /\ UNCHANGED resp
       ELSE LET v == Validate(q) IN
            IF v # <<>>
            THEN /\ Write(r, v[1])
                 /\ pc' = [pc EXCEPT ![r] = "done"]
            ELSE /\ pc' = [pc EXCEPT ![r] = "check"]
                 /\ UNCHANGED resp
    /\ UNCHANGED <<table, nextId, dbLog, rowsRead, srvVars>>

\* Mutant: the existence check never finds the name.
checkUsernameExistsNever(username) == FALSE

\* SELECT EXISTS(SELECT 1 FROM users WHERE name=$1)
checkUsernameExists(username) ==
    \E i \in 1..Len(table) : table[i].name = username

CreateCheck(r) ==
    /\ Running
    /\ pc[r] = "check"
    /\ \E err \in BOOLEAN :
        IF err
        THEN /\ Issue(r, "exists", "err")
             /\ Write(r, sendErrorResponse("Error checking username",
                                           StatusInternalServerError))
             /\ pc' = [pc EXCEPT ![r] = "done"]
        ELSE IF checkUsernameExists(req[r].name)
        THEN /\ Issue(r, "exists", "found")
             /\ Write(r, sendErrorResponse("Username already exists", StatusConflict))
             /\ pc' = [pc EXCEPT ![r] = "done"]
        ELSE /\ Issue(r, "exists", "notfound")
             /\ pc' = [pc EXCEPT ![r] = "insert"]
             /\ UNCHANGED resp
    /\ UNCHANGED <<table, nextId, req, before, rowsRead, srvVars>>

\* INSERT INTO users (name) VALUES ($1)
CreateInsert(r) ==
    /\ Running
    /\ pc[r] = "insert"
    /\ \E err \in BOOLEAN :
        IF err
        THEN /\ Issue(r, "insert", "err")
             /\ Write(r, sendErrorResponse("Failed to create user",
                                           StatusInternalServerError))
             /\ UNCHANGED <<table, nextId>>
        ELSE /\ Issue(r, "insert", "ok")
             /\ table' = Append(table, Row(nextId, req[r].name))
             /\ nextId' = nextId + 1
             /\ Write(r, sendSuccessResponse(
                    [message |-> <<"User ", req[r].name, " created successfully">>,
                     status |-> StatusCreated], StatusCreated))
    /\ pc' = [pc EXCEPT ![r] = "done"]
    /\ UNCHANGED <<req, before, rowsRead, srvVars>>

----------------------------------------------------------------------------
\* main: signal, srv.Shutdown(ctx), exit

\* <-stop, then srv.Shutdown closes the listener and starts waiting.
Signal ==
    /\ phase = "serving"
    /\ phase' = "shutdown"
    /\ listening' = FALSE
    /\ clock' = 0
    /\ atSignal' = InFlight
    /\ UNCHANGED <<table, nextId, req, pc, resp, dbLog, before, rowsRead,
                   dbOpen, exitKind>>

\* Mutant: the server is closed without waiting for its connections.
QuiescentNoWait == TRUE

\* srv.Shutdown finds every connection idle.
Quiescent == InFlight = {}

\* A second of the context's timeout passes while srv.Shutdown waits (it
\* polls the connections at least every 500 ms, so no second passes while
\* they are all idle).
Tick ==
    /\ phase = "shutdown"
    /\ clock < GracePeriod
    /\ ~Quiescent
    /\ clock' = clock + 1
    /\ UNCHANGED <<table, nextId, req, pc, resp, dbLog, before, rowsRead,
                   phase, listening, dbOpen, exitKind, atSignal>>

\* srv.Shutdown returns nil; main returns and its deferred db.Close runs.
ShutdownGraceful ==
    /\ phase = "shutdown"
    /\ Quiescent
    /\ phase' = "exited"
    /\ exitKind' = "graceful"
    /\ dbOpen' = FALSE
    /\ UNCHANGED <<table, nextId, req, pc, resp, dbLog, before, rowsRead,
                   listening, clock, atSignal>>

\* The context expires while srv.Shutdown waits: it returns the context's
\* error and log.Fatalf exits the process; deferred calls do not run.
ShutdownTimeout ==
    /\ phase = "shutdown"
    /\ clock = GracePeriod
    /\ atSignal # {}
    /\ phase' = "exited"
    /\ exitKind' = "fatal"
    /\ UNCHANGED <<table, nextId, req, pc, resp, dbLog, before, rowsRead,
                   listening, clock, dbOpen, atSignal>>

----------------------------------------------------------------------------
Next ==
    \/ \E r \in Req, q \in Requests : Arrive(r, q)
    \/ \E r \in Req : GetUsers(r)
    \/ \E r \in Req : CreateCheck(r)
    \/ \E r \in Req : CreateInsert(r)
    \/ Signal
    \/ Tick
    \/ ShutdownGraceful
    \/ ShutdownTimeout

Spec == Init /\ [][Next]_vars

\* One request at a time: a request arrives only when no other is in progress.
ArriveAlone(r, q) == InFlight = {} /\ Arrive(r, q)

NextSeq ==
    \/ \E r \in Req, q \in Requests : ArriveAlone(r, q)
    \/ \E r \in Req : GetUsers(r)
    \/ \E r \in Req : CreateCheck(r)
    \/ \E r \in Req : CreateInsert(r)
    \/ Signal
    \/ Tick
    \/ ShutdownGraceful
    \/ ShutdownTimeout

SeqSpec == Init /\ [][NextSeq]_vars

----------------------------------------------------------------------------
\* Vocabulary of the properties

Done(r) == pc[r] = "done"

Arrived(r) == pc[r] # "idle"

IsCreate(r) == Arrived(r) /\ req[r].endpoint = "create"

IsList(r) == Arrived(r) /\ req[r].endpoint = "users"

\* A POST to /create whose form parses.
IsPost(r) == IsCreate(r) /\ req[r].method = "POST" /\ req[r].parseOk

NoDbError(r) == \A k \in 1..Len(dbLog[r]) : dbLog[r][k].res # "err"

Code(r) == resp[r][1].code

Body(r) == resp[r][1].body

ErrorOf(r) == IF "error" \in DOMAIN Body(r) THEN Body(r).error ELSE "(none)"

Ops(r) == [k \in 1..Len(dbLog[r]) |-> dbLog[r][k].op]

NamesOf(t) == {t[i].name : i \in 1..Len(t)}

RowsNamed(t, n) == {i \in 1..Len(t) : t[i].name = n}

RowSet(t) == {t[i] : i \in 1..Len(t)}

\* A name the length check of createUser lets through.
Accepted(n) == GoLen(n) >= 3 /\ GoLen(n) <= 20

LengthMessage == "Username must be between 3 and 20 characters"

----------------------------------------------------------------------------
\* C1: the users table never holds two rows with the same name, whatever the
\* interleaving of the create requests.
C1_NoDuplicateNames ==
    \A i, j \in 1..Len(table) : table[i].name = table[j].name => i = j

C3_CreateThenList ==
    \A i \in Req :
        ( /\ Done(i) /\ IsPost(i)
          /\ RuneCount(req[i].name) >= 3 /\ RuneCount(req[i].name) <= 20
          /\ req[i].name \notin NamesOf(before[i])
          /\ NoDbError(i) )
        => /\ Code(i) = 201
           /\ \A j \in Req :
                (j = i + 1 /\ IsList(j) /\ Done(j) /\ NoDbError(j))
                => /\ Code(j) = 200
                   /\ Body(j).users.kind = "array"
                   /\ Cardinality(RowsNamed(Body(j).users.elems, req[i].name)) = 1
                   /\ {e \in RowSet(Body(j).users.elems) : e.name # req[i].name}
                        = RowSet(before[i])

\* C4: a list request that finds the table empty returns 200 with a users
\* field that is an empty list, not null and not absent.
C4_EmptyListNotNull ==
    \A r \in Req :
        (IsList(r) /\ Done(r) /\ NoDbError(r) /\ rowsRead[r] = <<>>)
        => /\ Code(r) = 200
           /\ "users" \in DOMAIN Body(r)
           /\ Body(r).users = [kind |-> "array", elems |-> <<>>]

\* C5: a POST create whose name is non-empty and has fewer than 3 or more
\* than 20 characters gets a 400 error envelope and issues no statement;
\* names of exactly 3 and exactly 20 characters are not rejected for length.
C5_LengthRejected ==
    \A r \in Req :
        (IsPost(r) /\ req[r].name # <<>>)
        => /\ (RuneCount(req[r].name) < 3 \/ RuneCount(req[r].name) > 20)
                => /\ Done(r)
                   /\ Code(r) = 400
                   /\ "error" \in DOMAIN Body(r)
                   /\ dbLog[r] = <<>>
           /\ (RuneCount(req[r].name) \in {3, 20} /\ Done(r))
                => ErrorOf(r) # LengthMessage

\* C6: a request to /create with a method other than POST gets a 405 error
\* envelope and issues no statement against the users table, whatever its name.
C6_MethodNotAllowed ==
    \A r \in Req :
        (IsCreate(r) /\ req[r].method # "POST")
        => /\ Done(r)
           /\ Len(resp[r]) = 1
           /\ Code(r) = 405
           /\ Body(r) = [error |-> "Invalid request method. Only POST is allowed",
                         status |-> 405]
           /\ dbLog[r] = <<>>

C6_Witness ==
    \E r \in Req :
        /\ IsCreate(r) /\ req[r].method # "POST" /\ Done(r)
        /\ req[r].name \in NamesOf(table)
        /\ Accepted(req[r].name)
        /\ Code(r) = 405

\* C7 as stated: every request in progress when the signal arrives has
\* written its response by the time the process has terminated.
C7_AllInFlightCompleted ==
    phase = "exited" => \A r \in atSignal : Done(r) /\ Len(resp[r]) = 1

\* C7 as amended: when srv.Shutdown returns nil (main returns), or the
\* process ends before the grace period has run out, every request that was
\* in progress at the signal has written its response; the process ends with
\* requests unanswered only by log.Fatalf once the grace period has expired.
C7_GracefulCompletesInFlight ==
    /\ (phase = "exited" /\ (exitKind = "graceful" \/ clock < GracePeriod))
          => \A r \in atSignal : Done(r) /\ Len(resp[r]) = 1
    /\ (phase = "exited" /\ \E r \in atSignal : ~Done(r))
          => exitKind = "fatal" /\ clock = GracePeriod

C7_Witness ==
    /\ phase = "exited"
    /\ exitKind = "graceful"
    /\ Cardinality(atSignal) = NumReq
    /\ \A r \in atSignal : Done(r)

\* C8: on every exit that follows the signal, the listener has stopped
\* accepting and the connection pool has been closed.
C8_PoolClosedOnExit ==
    phase = "exited" => ~listening /\ ~dbOpen

\* C9: every handler invocation writes at most one response and, once it has
\* returned, exactly one: an envelope whose status field is the code written,
\* with a users (200) or message (201) field and no error field, or with an
\* error field (400, 405, 409, 500) and neither users nor message.
WellFormed(w) ==
    /\ "status" \in DOMAIN w.body
    /\ w.body.status = w.code
    /\ \/ /\ w.code = 200
          /\ DOMAIN w.body = {"status", "users"}
       \/ /\ w.code = 201
          /\ DOMAIN w.body = {"status", "message"}
       \/ /\ w.code \in {400, 405, 409, 500}
          /\ DOMAIN w.body = {"status", "error"}

C9_OneEnvelope ==
    \A r \in Req :
        /\ Len(resp[r]) <= 1
        /\ Done(r) <=> Len(resp[r]) = 1
        /\ Done(r) => WellFormed(resp[r][1])

C9_Witness ==
    \E r, s \in Req :
        /\ Done(r) /\ Done(s)
        /\ Code(r) \in {200, 201}
        /\ Code(s) \in {405, 409, 500}

\* C10: createUser checks method, form, empty name, name length, existence and
\* then inserts, stopping at the first failure: the response is that of the
\* earliest failing check, a request answered 405 or 400 issues no statement,
\* the INSERT follows only an existence check of the same request that found
\* nothing, and an existence check that fails gives 500 and no INSERT.
C10_CheckOrder ==
    \A r \in Req :
        IsCreate(r) =>
        /\ req[r].method # "POST" => Done(r) /\ Code(r) = 405
        /\ (req[r].method = "POST" /\ ~req[r].parseOk)
              => Done(r) /\ Code(r) = 400 /\ ErrorOf(r) = "Failed to parse form data"
        /\ (IsPost(r) /\ req[r].name = <<>>)
              => Done(r) /\ Code(r) = 400 /\ ErrorOf(r) = "Username is required"
        /\ (Done(r) /\ ErrorOf(r) = LengthMessage)
              => IsPost(r) /\ req[r].name # <<>> /\ Code(r) = 400
        /\ (Done(r) /\ Code(r) \in {400, 405}) => dbLog[r] = <<>>
        /\ dbLog[r] # <<>>
              => /\ IsPost(r) /\ req[r].name # <<>>
                 /\ Ops(r) \in {<<"exists">>, <<"exists", "insert">>}
        /\ Len(dbLog[r]) = 2 => dbLog[r][1].res = "notfound"
        /\ (dbLog[r] # <<>> /\ dbLog[r][1].res = "err")
              => Done(r) /\ Code(r) = 500 /\ Len(dbLog[r]) = 1
        /\ (dbLog[r] # <<>> /\ dbLog[r][1].res = "found")
              => Done(r) /\ Code(r) = 409 /\ Len(dbLog[r]) = 1

C10_Witness ==
    \E r, s \in Req :
        /\ IsCreate(r) /\ Done(r)
        /\ req[r].method # "POST" /\ req[r].name = <<>>
        /\ Code(r) = 405 /\ dbLog[r] = <<>>
        /\ IsCreate(s) /\ Done(s)
        /\ Ops(s) = <<"exists", "insert">>

====
